---- MODULE Spec2Model ----
(***************************************************************************)
(* Trial aggregation of start_line/utils.py: aggregate_data and            *)
(* aggregate_normalize_data, executed one loop iteration at a time over a *)
(* caller-supplied list of per-trial dictionaries; and the colour          *)
(* selection of plot_bar of start_line/plotting.py, executed one group of  *)
(* bars at a time.                                                          *)
(*                                                                         *)
(* Numbers are exact rationals <<n, d>> (d > 0, lowest terms); floating    *)
(* point rounding is not modelled.  A metric name is the sequence of its   *)
(* "_"-separated parts, so that key.split("_") is the key itself and       *)
(* "{}_{}".format(x, y) is concatenation of part sequences.                *)
(***************************************************************************)
EXTENDS Integers, Sequences, FiniteSets, TLC

VARIABLES
    heap,         \* object store: "caller" is the list the caller passed in,
                  \* "copy" the object deepcopy built (when it has run)
    call,         \* the public entry point that was called, "none" before
    baseline,     \* the baseline argument of aggregate_normalize_data
    results_copy, \* the object the name results_copy is bound to
    arg,          \* the object aggregate_data received as results
    pc,           \* position: idle, normalize, aggregate, done, raised
    i,            \* index of the next record of the running outer loop
    avg_by_type,  \* the dictionary of line 154 of the current data_point
    ret_dict,     \* aggregate_data's key -> pooled observations
    out,          \* the returned dictionary key -> (mean, std)
    exc,          \* the exception that left the call, "none" otherwise
    x_groups,     \* plot_bar: the group of every bar, a list of integers
    formatting,   \* plot_bar: the formatting dictionary the caller passed
    colors,       \* plot_bar: the colour list of lines 90-97
    plot_pc,      \* plot_bar: idle, palette, bars, done, raised
    plot_i,       \* plot_bar: the index i of enumerate(ordered_groups)
    plot_exc      \* plot_bar: the exception that left it, "none" otherwise

utils_vars == <<heap, call, baseline, results_copy, arg, pc, i, avg_by_type,
                ret_dict, out, exc>>
plot_vars == <<x_groups, formatting, colors, plot_pc, plot_i, plot_exc>>

vars == <<heap, call, baseline, results_copy, arg, pc, i, avg_by_type,
          ret_dict, out, exc,
          x_groups, formatting, colors, plot_pc, plot_i, plot_exc>>

-----------------------------------------------------------------------------
(* Rational arithmetic *)

Abs(x) == IF x < 0 THEN -x ELSE x

RECURSIVE GCD(_, _)
GCD(a, b) == IF b = 0 THEN a ELSE GCD(b, a % b)

\* n/d in lowest terms with a positive denominator (d # 0)
Rat(n, d) ==
    LET g == GCD(Abs(n), Abs(d))
        s == IF d < 0 THEN -1 ELSE 1
    IN  <<(s * n) \div g, (s * d) \div g>>

Int2Rat(n) == <<n, 1>>
RAdd(x, y) == Rat(x[1] * y[2] + y[1] * x[2], x[2] * y[2])
RSub(x, y) == Rat(x[1] * y[2] - y[1] * x[2], x[2] * y[2])
RMul(x, y) == Rat(x[1] * y[1], x[2] * y[2])
RDiv(x, y) == Rat(x[1] * y[2], x[2] * y[1])

RECURSIVE RSum(_)
RSum(s) == IF s = <<>> THEN Int2Rat(0) ELSE RAdd(s[1], RSum(Tail(s)))

\* nan, and the observation a character of a string becomes in a pool
NaN == <<0, 0>>
CharObs == <<1, 0>>
IsNumber(x) == x[2] > 0

-----------------------------------------------------------------------------
(* Python values *)

Num(x)     == [t |-> "num",  n |-> x,   s |-> <<>>]    \* int or float
Str        == [t |-> "str",  n |-> NaN, s |-> <<>>]    \* a non-empty str
NoneValue  == [t |-> "none", n |-> NaN, s |-> <<>>]
PyList(xs) == [t |-> "list", n |-> NaN, s |-> xs]      \* list of values
\* a 1-D ndarray of the numbers xs; like a list, it holds its elements in s
Arr(xs)    == [t |-> "arr",  n |-> NaN, s |-> [j \in 1..Len(xs) |-> Num(xs[j])]]

\* the numbers held by a list of numbers or by an array
numbers_of(v) == [j \in 1..Len(v.s) |-> v.s[j].n]

\* the baseline argument None
None == <<>>

-----------------------------------------------------------------------------
(* Helpers of both entry points *)

\* key.split("_")[-1]
data_type_of(key) == key[Len(key)]

\* "{}_{}".format(baseline, data_type); None formats as the text None
format_key(b, data_type) == (IF b = None THEN <<"None">> ELSE b) \o <<data_type>>

\* np.array(xs) of a list of numbers
np_array(v) == Arr(numbers_of(v))

\* m[b != 0] / b[b != 0] for two arrays of equal length, as number sequences
RECURSIVE masked_divide(_, _)
masked_divide(ms, bs) ==
    IF ms = <<>> THEN <<>>
    ELSE (IF Head(bs) # Int2Rat(0) THEN <<RDiv(Head(ms), Head(bs))>> ELSE <<>>)
         \o masked_divide(Tail(ms), Tail(bs))

\* a variant of try_divide that keeps the positions where the baseline is zero
try_divide_unmasked(m, b) ==
    IF m.t = "arr" /\ Len(m.s) = Len(b.s)
    THEN [ok |-> TRUE,
          v |-> Arr([j \in 1..Len(m.s) |->
                       IF b.s[j].n # Int2Rat(0) THEN RDiv(m.s[j].n, b.s[j].n)
                       ELSE m.s[j].n])]
    ELSE [ok |-> FALSE, v |-> m]

\* a variant of try_divide that divides the common prefix of two arrays of
\* different lengths instead of failing
try_divide_prefix(m, b) ==
    LET n == IF Len(m.s) < Len(b.s) THEN Len(m.s) ELSE Len(b.s) IN
    IF m.t = "arr"
    THEN [ok |-> TRUE,
          v |-> Arr(masked_divide(SubSeq(numbers_of(m), 1, n),
                                  SubSeq(numbers_of(b), 1, n)))]
    ELSE [ok |-> FALSE, v |-> m]

\* a variant of try_divide that divides the baseline by the metric
try_divide_reciprocal(m, b) ==
    IF m.t = "arr" /\ Len(m.s) = Len(b.s)
    THEN [ok |-> TRUE, v |-> Arr(masked_divide(numbers_of(b), numbers_of(m)))]
    ELSE [ok |-> FALSE, v |-> m]

\* line 174 inside its try: the value data_point[key] is rebound to, or the
\* failure the bare except swallows.  Indexing an int, a float, a str, None or
\* a list with a boolean array is a TypeError; a boolean mask whose length is
\* not the array's is an IndexError.
try_divide(m, b) ==
    IF m.t = "arr" /\ Len(m.s) = Len(b.s)
    THEN [ok |-> TRUE, v |-> Arr(masked_divide(numbers_of(m), numbers_of(b)))]
    ELSE [ok |-> FALSE, v |-> m]

\* line 178: data_point[key][0] /= float(avg), outside any try
scalar_divide(m, c) ==
    IF m.t \notin {"list", "arr"} THEN [exc |-> "TypeError", v |-> m]
    ELSE IF Len(m.s) = 0 THEN [exc |-> "IndexError", v |-> m]
    ELSE IF m.t = "list" /\ m.s[1].t # "num" THEN [exc |-> "TypeError", v |-> m]
    ELSE IF c = Int2Rat(0) THEN [exc |-> "ZeroDivisionError", v |-> m]
    ELSE [exc |-> "none", v |-> [m EXCEPT !.s[1] = Num(RDiv(m.s[1].n, c))]]

-----------------------------------------------------------------------------
(* aggregate_normalize_data, the body of the loop over data_point *)

\* a variant of new_avg_by_type that keeps the dictionary of the last data_point
kept_avg_by_type(previous) == previous

\* line 154
new_avg_by_type(previous) == <<>>

\* a variant of convert_keys that also records a baseline given as an array
RECURSIVE convert_keys_or_array(_, _, _, _)
convert_keys_or_array(dp, avg, b, j) ==
    IF j > Len(dp) THEN [dp |-> dp, avg |-> avg, exc |-> "none"]
    ELSE
      LET key == dp[j].k
          v   == dp[j].v
          data_type == data_type_of(key)
          recorded  == data_type \notin DOMAIN avg
                       /\ key = format_key(b, data_type)
      IN  IF v.t = "list" /\ Len(v.s) = 0
          THEN [dp |-> dp, avg |-> avg, exc |-> "IndexError"]
          ELSE IF v.t = "list" /\ v.s[1].t = "list"
          THEN LET converted == np_array(v.s[1]) IN
               convert_keys_or_array(
                   [dp EXCEPT ![j].v = converted],
                   IF recorded THEN (data_type :> converted) @@ avg ELSE avg,
                   b, j + 1)
          ELSE IF v.t = "arr"
          THEN convert_keys_or_array(
                   dp, IF recorded THEN (data_type :> v) @@ avg ELSE avg,
                   b, j + 1)
          ELSE convert_keys_or_array(dp, avg, b, j + 1)

\* lines 155-167: the first loop over the keys of data_point, from key j on
RECURSIVE convert_keys(_, _, _, _)
convert_keys(dp, avg, b, j) ==
    IF j > Len(dp) THEN [dp |-> dp, avg |-> avg, exc |-> "none"]
    ELSE
      LET key == dp[j].k
          v   == dp[j].v
      IN  IF v.t = "list" /\ Len(v.s) = 0
          THEN [dp |-> dp, avg |-> avg, exc |-> "IndexError"]
          ELSE IF v.t = "list" /\ v.s[1].t = "list"
          THEN LET is_list   == TRUE
                   converted == np_array(v.s[1])
                   dp2       == [dp EXCEPT ![j].v = converted]
                   data_type == data_type_of(key)
                   avg2 ==
                     IF data_type \notin DOMAIN avg
                        /\ key = format_key(b, data_type)
                     THEN (data_type :>
                             (IF is_list THEN np_array(converted)
                              ELSE converted.s[1])) @@ avg
                     ELSE avg
               IN  convert_keys(dp2, avg2, b, j + 1)
          ELSE convert_keys(dp, avg, b, j + 1)

\* a variant of normalizes without the test of line 168
normalizes_always(b) == TRUE

\* line 168
normalizes(b) == b # None

\* lines 169-178: the second loop over the keys of data_point, from key j on
RECURSIVE divide_keys(_, _, _)
divide_keys(dp, avg, j) ==
    IF j > Len(dp) THEN [dp |-> dp, exc |-> "none"]
    ELSE
      LET data_type == data_type_of(dp[j].k) IN
      IF data_type \in DOMAIN avg
      THEN IF avg[data_type].t = "arr"
           THEN LET r == try_divide(dp[j].v, avg[data_type]) IN
                divide_keys(IF r.ok THEN [dp EXCEPT ![j].v = r.v] ELSE dp,
                            avg, j + 1)
           ELSE LET r == scalar_divide(dp[j].v, avg[data_type].n) IN
                IF r.exc # "none" THEN [dp |-> dp, exc |-> r.exc]
                ELSE divide_keys([dp EXCEPT ![j].v = r.v], avg, j + 1)
      ELSE divide_keys(dp, avg, j + 1)

\* a variant of normalize_point in which the baseline metrics are divided
\* first and the metrics of their groups are divided by the quotients
normalize_point_by_divided(dp, previous_avg, b) ==
    LET c == convert_keys(dp, new_avg_by_type(previous_avg), b, 1) IN
    IF c.exc # "none" THEN [dp |-> c.dp, avg |-> c.avg, exc |-> c.exc]
    ELSE IF normalizes(b)
         THEN LET first   == divide_keys(c.dp, c.avg, 1).dp
                  divided == [S \in DOMAIN c.avg |->
                                first[CHOOSE j \in 1..Len(first) :
                                        first[j].k = format_key(b, S)].v]
                  d == divide_keys(c.dp, divided, 1)
              IN  [dp |-> d.dp, avg |-> c.avg, exc |-> d.exc]
         ELSE [dp |-> c.dp, avg |-> c.avg, exc |-> "none"]

\* lines 154-178 for one data_point
normalize_point(dp, previous_avg, b) ==
    LET c == convert_keys(dp, new_avg_by_type(previous_avg), b, 1) IN
    IF c.exc # "none" THEN [dp |-> c.dp, avg |-> c.avg, exc |-> c.exc]
    ELSE IF normalizes(b)
         THEN LET d == divide_keys(c.dp, c.avg, 1) IN
              [dp |-> d.dp, avg |-> c.avg, exc |-> d.exc]
         ELSE [dp |-> c.dp, avg |-> c.avg, exc |-> "none"]

-----------------------------------------------------------------------------
(* aggregate_data *)

\* ret_dict[k] with the "if k not in ret_dict: ret_dict[k] = []" before it
pool_of(ret, k) == IF k \in DOMAIN ret THEN ret[k] ELSE <<>>

\* list(x) for the first element x of a list that is not an int or a float
list_of(x) ==
    IF x.t \in {"list", "arr"} THEN [exc |-> "none", s |-> numbers_of(x)]
    ELSE IF x.t = "str" THEN [exc |-> "none", s |-> <<CharObs>>]
    ELSE [exc |-> "TypeError", s |-> <<>>]

\* a variant of first_of that pools the whole list
whole_list(v) == numbers_of(v)

\* line 126: what ret_dict[k].append(l[k][0]) adds to the pool
first_of(v) == <<v.s[1].n>>

\* lines 118-134: the loop over the keys of record l, from key j on
RECURSIVE collect_keys(_, _, _)
collect_keys(ret, l, j) ==
    IF j > Len(l) THEN [ret |-> ret, exc |-> "none"]
    ELSE
      LET k == l[j].k
          v == l[j].v
      IN  IF v.t = "num"
          THEN collect_keys((k :> Append(pool_of(ret, k), v.n)) @@ ret, l, j + 1)
          ELSE IF v.t = "list" /\ Len(v.s) = 0
          THEN [ret |-> ret, exc |-> "IndexError"]
          ELSE IF v.t = "list" /\ v.s[1].t = "num"
          THEN collect_keys((k :> (pool_of(ret, k) \o first_of(v))) @@ ret,
                            l, j + 1)
          ELSE IF v.t = "arr"
          THEN collect_keys((k :> (pool_of(ret, k) \o numbers_of(v))) @@ ret,
                            l, j + 1)
          ELSE IF v.t = "list"
          THEN LET xs == list_of(v.s[1]) IN
               IF xs.exc # "none"
               THEN [ret |-> (k :> pool_of(ret, k)) @@ ret, exc |-> xs.exc]
               ELSE collect_keys((k :> (pool_of(ret, k) \o xs.s)) @@ ret,
                                 l, j + 1)
          ELSE collect_keys(ret, l, j + 1)

\* np.mean of a list of numbers (nan, with a warning, for the empty list)
np_mean(pool) ==
    IF pool = <<>> THEN NaN ELSE RDiv(RSum(pool), Int2Rat(Len(pool)))

\* the square of np.std: mean(abs(x - mean)**2)
np_var(pool) ==
    IF pool = <<>> THEN NaN
    ELSE LET m  == np_mean(pool)
             sq == [j \in 1..Len(pool) |->
                      RMul(RSub(pool[j], m), RSub(pool[j], m))]
         IN  RDiv(RSum(sq), Int2Rat(Len(pool)))

\* np.std(pool), an exact real: the non-negative root of its radicand
np_std(pool) == [radicand |-> np_var(pool)]

\* lines 136-137
summarize(ret) ==
    IF \E k \in DOMAIN ret : \E j \in 1..Len(ret[k]) : ~IsNumber(ret[k][j])
    THEN [exc |-> "TypeError", out |-> <<>>]
    ELSE [exc |-> "none",
          out |-> [k \in DOMAIN ret |->
                     [mean |-> np_mean(ret[k]), std |-> np_std(ret[k])]]]

\* lines 116-139 as a function of the list it is given
aggregate_data(rs) ==
    LET collected[n \in 0..Len(rs)] ==
            IF n = 0 THEN [ret |-> <<>>, exc |-> "none"]
            ELSE IF collected[n - 1].exc # "none" THEN collected[n - 1]
            ELSE collect_keys(collected[n - 1].ret, rs[n], 1)
        c == collected[Len(rs)]
    IN  IF c.exc # "none" THEN [exc |-> c.exc, ret |-> c.ret, out |-> <<>>]
        ELSE [exc |-> summarize(c.ret).exc, ret |-> c.ret,
              out |-> summarize(c.ret).out]

\* a variant of deepcopy that binds the same object (results_copy = results)
same_object(h, ref) == [heap |-> h, ref |-> ref]

\* deepcopy(results): a new object equal to the one ref names
deepcopy(h, ref) == [heap |-> ("copy" :> h[ref]) @@ h, ref |-> "copy"]

-----------------------------------------------------------------------------
(* The inputs: result collections a caller can pass *)

MaxLen == 2
MaxRecords == 2

RECURSIVE SeqsUpTo(_, _)
SeqsUpTo(S, n) ==
    IF n = 0 THEN {<<>>}
    ELSE LET shorter == SeqsUpTo(S, n - 1) IN
         shorter \cup {Append(s, x) : s \in {t \in shorter : Len(t) = n - 1}, x \in S}

Ints(xs) == [j \in 1..Len(xs) |-> Int2Rat(xs[j])]
NumList(xs) == PyList([j \in 1..Len(xs) |-> Num(xs[j])])   \* [x, y, ...]
ListOfList(xs) == PyList(<<NumList(xs)>>)                   \* [[x, y, ...]]
Entry(k, v) == [k |-> k, v |-> v]

\* metric names: m_r, b_r, None_r, a, a_b
m_r    == <<"m", "r">>
b_r    == <<"b", "r">>
None_r == <<"None", "r">>
a      == <<"a">>
a_b    == <<"a", "b">>

Baselines == {None, <<"b">>}

\* every value shape aggregate_data distinguishes, well-formed or not
ShapeValues ==
    {Num(Int2Rat(1)), Num(Int2Rat(2)), Str, NumList(Ints(<<2, 1>>)),
     ListOfList(<<>>), ListOfList(Ints(<<1, 2>>)),
     PyList(<<NumList(Ints(<<2, 1>>)), NumList(Ints(<<1>>))>>),
     Arr(<<>>), Arr(Ints(<<1, 2>>)),
     PyList(<<>>), PyList(<<Str>>), PyList(<<NoneValue>>)}

ShapeRecords == {<<Entry(k, v)>> : k \in {m_r, a}, v \in ShapeValues}

\* collections of one-metric records of every shape
ShapeCollections == UNION {[1..n -> ShapeRecords] : n \in 1..MaxRecords}

\* series of a baseline metric and of a metric that is divided by it
BaselineSeries == SeqsUpTo({Int2Rat(n) : n \in {0, 1, 2}}, MaxLen)
MetricSeries   == SeqsUpTo({Int2Rat(n) : n \in {1, 2}}, MaxLen)

BaselineValues ==
    {ListOfList(xs) : xs \in BaselineSeries}
    \cup {Num(Int2Rat(2)), NumList(Ints(<<2>>)), Arr(Ints(<<2>>))}

MetricValues ==
    {ListOfList(xs) : xs \in MetricSeries}
    \cup {Num(Int2Rat(2)), NumList(Ints(<<2, 1>>)), Arr(Ints(<<1, 2>>)), Str}

\* records holding the metric b_r and a metric of its suffix group, in both
\* key orders, and records holding a metric literally named None_r
GroupRecords ==
    {<<Entry(b_r, bv), Entry(m_r, mv)>> : bv \in BaselineValues, mv \in MetricValues}
    \cup {<<Entry(m_r, mv), Entry(b_r, bv)>> : bv \in BaselineValues, mv \in MetricValues}
    \cup {<<Entry(None_r, ListOfList(bs)), Entry(m_r, ListOfList(ms))>> :
            bs \in BaselineSeries, ms \in MetricSeries}

\* a record without the metric b_r
CompanionRecords == {<<Entry(m_r, ListOfList(Ints(<<2, 1>>)))>>}

\* collections of one GroupRecords record at position p among companions
GroupCollections ==
    {[j \in 1..n |-> IF j < p THEN c[j] ELSE IF j = p THEN r ELSE c[j - 1]] :
        <<n, p, c, r>> \in UNION {UNION {{n} \X {p} \X [1..(n - 1) -> CompanionRecords]
                                        \X GroupRecords : p \in 1..n} : n \in 1..MaxRecords}}

\* the two collections section 8 of the specification works through
ScenarioAggregate ==
    << <<Entry(a, Num(Int2Rat(1))), Entry(a_b, NumList(Ints(<<10, 20>>)))>>,
       <<Entry(a, Num(Int2Rat(3))), Entry(a_b, NumList(Ints(<<30>>)))>> >>

ScenarioZeroFilter ==
    << <<Entry(b_r, ListOfList(Ints(<<0, 2, 4>>))),
         Entry(m_r, ListOfList(Ints(<<10, 20, 30>>)))>> >>

Collections ==
    ShapeCollections \cup GroupCollections \cup {ScenarioAggregate, ScenarioZeroFilter}

-----------------------------------------------------------------------------
(* The calls *)

\* plot_bar is not called
NoPlot ==
    /\ x_groups = <<>>
    /\ formatting = [style_size |-> "paper"]
    /\ colors = <<>>
    /\ plot_pc = "idle"
    /\ plot_i = 0
    /\ plot_exc = "none"


results == heap["caller"]

Init ==
    /\ heap \in {("caller" :> c) : c \in Collections}
    /\ call = "none"
    /\ baseline = None
    /\ results_copy = "none"
    /\ arg = "none"
    /\ pc = "idle"
    /\ i = 1
    /\ avg_by_type = <<>>
    /\ ret_dict = <<>>
    /\ out = <<>>
    /\ exc = "none"
    /\ NoPlot

\* a caller calls aggregate_data(results)
CallAggregateData ==
    /\ pc = "idle"
    /\ call' = "aggregate_data"
    /\ arg' = "caller"
    /\ pc' = "aggregate"
    /\ i' = 1
    /\ ret_dict' = <<>>
    /\ UNCHANGED <<heap, baseline, results_copy, avg_by_type, out, exc>>
    /\ UNCHANGED plot_vars

\* a caller calls aggregate_normalize_data(results, b); line 151
CallAggregateNormalizeData ==
    /\ pc = "idle"
    /\ \E b \in Baselines :
         LET c == deepcopy(heap, "caller") IN
         /\ baseline' = b
         /\ heap' = c.heap
         /\ results_copy' = c.ref
    /\ call' = "aggregate_normalize_data"
    /\ pc' = "normalize"
    /\ i' = 1
    /\ UNCHANGED <<arg, avg_by_type, ret_dict, out, exc>>
    /\ UNCHANGED plot_vars

\* lines 153-178, one data_point of results_copy
NormalizePoint ==
    /\ pc = "normalize"
    /\ i <= Len(heap[results_copy])
    /\ LET r == normalize_point(heap[results_copy][i], avg_by_type, baseline) IN
       /\ heap' = [heap EXCEPT ![results_copy][i] = r.dp]
       /\ avg_by_type' = r.avg
       /\ exc' = r.exc
       /\ pc' = IF r.exc = "none" THEN "normalize" ELSE "raised"
       /\ i' = IF r.exc = "none" THEN i + 1 ELSE i
    /\ UNCHANGED <<call, baseline, results_copy, arg, ret_dict, out>>
    /\ UNCHANGED plot_vars

\* line 180: aggregate_data(results_copy) is entered
NormalizeReturn ==
    /\ pc = "normalize"
    /\ i > Len(heap[results_copy])
    /\ arg' = results_copy
    /\ pc' = "aggregate"
    /\ i' = 1
    /\ ret_dict' = <<>>
    /\ UNCHANGED <<heap, call, baseline, results_copy, avg_by_type, out, exc>>
    /\ UNCHANGED plot_vars

\* lines 117-134, one record l of results
CollectRecord ==
    /\ pc = "aggregate"
    /\ i <= Len(heap[arg])
    /\ LET r == collect_keys(ret_dict, heap[arg][i], 1) IN
       /\ ret_dict' = r.ret
       /\ exc' = r.exc
       /\ pc' = IF r.exc = "none" THEN "aggregate" ELSE "raised"
       /\ i' = IF r.exc = "none" THEN i + 1 ELSE i
    /\ UNCHANGED <<heap, call, baseline, results_copy, arg, avg_by_type, out>>
    /\ UNCHANGED plot_vars

\* lines 136-139
Summarize ==
    /\ pc = "aggregate"
    /\ i > Len(heap[arg])
    /\ LET r == summarize(ret_dict) IN
       /\ out' = r.out
       /\ exc' = r.exc
       /\ pc' = IF r.exc = "none" THEN "done" ELSE "raised"
    /\ UNCHANGED <<heap, call, baseline, results_copy, arg, i, avg_by_type,
                   ret_dict>>
    /\ UNCHANGED plot_vars

Next ==
    \/ CallAggregateData
    \/ CallAggregateNormalizeData
    \/ NormalizePoint
    \/ NormalizeReturn
    \/ CollectRecord
    \/ Summarize

Spec == Init /\ [][Next]_vars

-----------------------------------------------------------------------------
(* plot_bar: groups and colours *)

\* plotting.py lines 9-21; a colour is the text of its literal
color_schemes ==
    [two_color_blue_green     |-> <<"#38bae2", "#4eb156">>,
     two_color_blue_red       |-> <<"#7aadd1", "#df5e5f">>,
     two_color_blue_red_light |-> <<"#7aadd130", "#df5e5f30">>,
     three_color_america      |-> <<"#f7f7f7", "#6daedb", "#ffb6c2">>,
     three_color_primary      |-> <<"#ff7f0f", "#2ba02b", "#9467bd">>,
     six_color                |-> <<"(0.216, 0.494, 0.722, 0.7)",
                                    "(1.0, 0.498, 0.0, 0.7)",
                                    "(0.302, 0.686, 0.29, 0.7)",
                                    "(0.969, 0.506, 0.749, 0.7)",
                                    "(0.596, 0.306, 0.639, 0.7)",
                                    "(0.894, 0.102, 0.11, 0.7)">>]

\* a palette text is the sequence of its first character, when that is "#",
\* and the rest: <<"#", "df5e5f">> is "#df5e5f", <<"six_color">> is a name
first_character(palette) == IF palette[1] = "#" THEN "#" ELSE "other"
scheme_name(palette) == palette[1]

\* set(x_groups)
group_set(xs) == {xs[j] : j \in 1..Len(xs)}

\* line 72
num_groups(xs) == Cardinality(group_set(xs))

\* Counter(x_groups)[g], the length of values_by_group[g] after lines 79-85
bars_of(xs, g) == Cardinality({j \in 1..Len(xs) : xs[j] = g})

\* line 73, for a list that is not empty
max_bars_per_group(xs) ==
    CHOOSE m \in 1..Len(xs) :
        /\ \E g \in group_set(xs) : bars_of(xs, g) = m
        /\ \A g \in group_set(xs) : bars_of(xs, g) <= m

\* line 77: sorted(list(set(x_groups)))
ordered_groups(xs) ==
    [n \in 1..num_groups(xs) |->
        CHOOSE g \in group_set(xs) :
            Cardinality({h \in group_set(xs) : h < g}) = n - 1]

\* line 97: color_schemes[...][:max_bars_per_group]
slice(scheme, xs) ==
    SubSeq(scheme, 1, IF max_bars_per_group(xs) < Len(scheme)
                      THEN max_bars_per_group(xs) ELSE Len(scheme))

\* d[key] = value when key is not in d (lines 87-88, 99-100, 136-137)
set_default(d, key, value) == IF key \in DOMAIN d THEN d ELSE (key :> value) @@ d

\* lines 87-97: the dictionary with its default palette, the colours, or the
\* assertion that fails
select_colors(f, xs) ==
    LET f2 == set_default(f, "color_palette", <<"six_color">>)
        palette == f2.color_palette
    IN  IF first_character(palette) = "#"
        THEN [formatting |-> f2, colors |-> <<palette>>,
              exc |-> IF num_groups(xs) = 1 THEN "none" ELSE "AssertionError"]
        ELSE IF scheme_name(palette) \notin DOMAIN color_schemes
        THEN [formatting |-> f2, colors |-> <<>>, exc |-> "AssertionError"]
        ELSE IF ~(Len(color_schemes[scheme_name(palette)]) >= num_groups(xs))
        THEN [formatting |-> f2, colors |-> <<>>, exc |-> "AssertionError"]
        ELSE [formatting |-> f2,
              colors |-> slice(color_schemes[scheme_name(palette)], xs),
              exc |-> "none"]

\* lines 106-113 for the group at index n of enumerate (n counts from 0):
\* the arguments are evaluated first, colors[n] among them, then the axes
\* draw max_bars_per_group positions against the values of the group, whose
\* shapes must broadcast
draw_group(cs, xs, n) ==
    LET group_num == ordered_groups(xs)[n + 1]
        values    == bars_of(xs, group_num)
    IN  IF ~(n < Len(cs)) THEN "IndexError"
        ELSE IF values # max_bars_per_group(xs) /\ values # 1 THEN "ValueError"
        ELSE "none"

-----------------------------------------------------------------------------
(* plot_bar: the inputs *)

MaxBars == 3
MaxGroups == 3

\* x_groups: lists of group numbers, the empty list included
GroupLists == SeqsUpTo(1..MaxGroups, MaxBars)

\* formatting['color_palette']: a single colour, a scheme, an unknown name
Palettes ==
    {<<"#", "df5e5f">>, <<"rainbow">>}
    \cup {<<name>> : name \in DOMAIN color_schemes}

\* formatting dictionaries, with and without the key color_palette
Formattings ==
    {[style_size |-> size] : size \in {"paper", "presentation"}}
    \cup {[style_size |-> size, color_palette |-> p] :
            size \in {"paper", "presentation"}, p \in Palettes}

-----------------------------------------------------------------------------
(* plot_bar: the call *)

\* no aggregation is called
NoAggregation ==
    /\ heap = ("caller" :> <<>>)
    /\ call = "none"
    /\ baseline = None
    /\ results_copy = "none"
    /\ arg = "none"
    /\ pc = "idle"
    /\ i = 1
    /\ avg_by_type = <<>>
    /\ ret_dict = <<>>
    /\ out = <<>>
    /\ exc = "none"

InitPlot ==
    /\ NoAggregation
    /\ x_groups \in GroupLists
    /\ formatting \in Formattings
    /\ colors = <<>>
    /\ plot_pc = "idle"
    /\ plot_i = 0
    /\ plot_exc = "none"

\* lines 65-85: plot_bar(ax, x_groups, y_values, y_errors, labels, formatting)
\* is called with one value, one error and a label for every bar; max() of
\* line 73 raises on the empty list
CallPlotBar ==
    /\ plot_pc = "idle"
    /\ plot_exc' = IF x_groups = <<>> THEN "ValueError" ELSE "none"
    /\ plot_pc' = IF x_groups = <<>> THEN "raised" ELSE "palette"
    /\ UNCHANGED <<x_groups, formatting, colors, plot_i>>
    /\ UNCHANGED utils_vars

\* lines 87-103
SelectColors ==
    /\ plot_pc = "palette"
    /\ LET r == select_colors(formatting, x_groups) IN
       /\ formatting' = IF r.exc = "none"
                        THEN set_default(r.formatting, "bar_width", Rat(1, 4))
                        ELSE r.formatting
       /\ colors' = r.colors
       /\ plot_exc' = r.exc
       /\ plot_pc' = IF r.exc = "none" THEN "bars" ELSE "raised"
    /\ plot_i' = 0
    /\ UNCHANGED x_groups
    /\ UNCHANGED utils_vars

\* lines 105-113, one group of ordered_groups
DrawGroup ==
    /\ plot_pc = "bars"
    /\ plot_i < num_groups(x_groups)
    /\ LET r == draw_group(colors, x_groups, plot_i) IN
       /\ plot_exc' = r
       /\ plot_pc' = IF r = "none" THEN "bars" ELSE "raised"
       /\ plot_i' = IF r = "none" THEN plot_i + 1 ELSE plot_i
    /\ UNCHANGED <<x_groups, formatting, colors>>
    /\ UNCHANGED utils_vars

\* lines 136-144: the loop is over and plot_bar returns; the dictionaries
\* passed have neither extra_labels nor per_group_labels
PlotReturn ==
    /\ plot_pc = "bars"
    /\ plot_i = num_groups(x_groups)
    /\ formatting' = set_default(formatting, "label_rotation", Int2Rat(20))
    /\ plot_pc' = "done"
    /\ UNCHANGED <<x_groups, colors, plot_i, plot_exc>>
    /\ UNCHANGED utils_vars

NextPlot ==
    \/ CallPlotBar
    \/ SelectColors
    \/ DrawGroup
    \/ PlotReturn

SpecPlot == InitPlot /\ [][NextPlot]_vars

-----------------------------------------------------------------------------
(* Vocabulary of the properties *)

AggregateData == "aggregate_data"
AggregateNormalizeData == "aggregate_normalize_data"

HasKey(rec, k) == \E j \in 1..Len(rec) : rec[j].k = k
ValueOf(rec, k) == rec[CHOOSE j \in 1..Len(rec) : rec[j].k = k].v
KeysOf(coll) == {coll[n][j].k : <<n, j>> \in
                   UNION {{n} \X (1..Len(coll[n])) : n \in 1..Len(coll)}}
Suffix(k) == k[Len(k)]

IsScalarList(v) == v.t = "list" /\ Len(v.s) > 0 /\ v.s[1].t = "num"
IsListOfList(v) == v.t = "list" /\ Len(v.s) > 0 /\ v.s[1].t = "list"
IsSeries(v) == v.t = "arr" \/ IsListOfList(v)
SeriesOf(v) == IF v.t = "arr" THEN numbers_of(v) ELSE numbers_of(v.s[1])

\* a list that is neither scalar-first nor sequence-first
Malformed(v) == v.t = "list" /\ ~IsScalarList(v) /\ ~IsListOfList(v)
HasMalformed(coll) ==
    \E n \in 1..Len(coll) : \E j \in 1..Len(coll[n]) : Malformed(coll[n][j].v)

\* the observations one value contributes, by its shape
Observations(v) ==
    IF v.t = "num" THEN <<v.n>>
    ELSE IF IsScalarList(v) THEN <<v.s[1].n>>
    ELSE IF IsSeries(v) THEN SeriesOf(v)
    ELSE <<>>

\* the observations of metric k over the records of coll, in record order
Pooled(coll, k) ==
    LET upto[n \in 0..Len(coll)] ==
            IF n = 0 THEN <<>>
            ELSE upto[n - 1] \o (IF HasKey(coll[n], k)
                                 THEN Observations(ValueOf(coll[n], k))
                                 ELSE <<>>)
    IN  upto[Len(coll)]

Mean(xs) == RDiv(RSum(xs), Int2Rat(Len(xs)))

\* population variance: the mean of the squares minus the square of the mean
PopulationVariance(xs) ==
    RSub(Mean([j \in 1..Len(xs) |-> RMul(xs[j], xs[j])]), RMul(Mean(xs), Mean(xs)))

-----------------------------------------------------------------------------
(* C1: when aggregate_data returns, every metric with at least one          *)
(* observation is in the result with the mean and the population standard  *)
(* deviation of its pool, and the pool holds, record after record: a        *)
(* scalar itself, the first element only of a list that starts with a       *)
(* scalar, every element of an array, every element of the first inner     *)
(* sequence of a list that starts with a sequence.  A collection without a  *)
(* malformed list never raises.                                             *)
C1_PooledMeanAndStd ==
    /\ pc = "done" =>
         /\ DOMAIN out \subseteq KeysOf(heap[arg])
         /\ \A k \in KeysOf(heap[arg]) :
              LET xs == Pooled(heap[arg], k) IN
              xs # <<>> =>
                /\ k \in DOMAIN out
                /\ ret_dict[k] = xs
                /\ out[k].mean = Mean(xs)
                /\ out[k].std.radicand = PopulationVariance(xs)
    /\ pc = "raised" => HasMalformed(results)

\* aggregate_data has returned the pool of a metric given as a list of
\* scalars in one record and as a list of a list in the next
C1_Witness ==
    /\ call = AggregateData /\ pc = "done" /\ Len(results) = 2
    /\ IsScalarList(results[1][1].v) /\ Len(results[1][1].v.s) = 2
    /\ IsListOfList(results[2][1].v) /\ Len(SeriesOf(results[2][1].v)) = 2
    /\ results[1][1].k = results[2][1].k
    /\ Len(ret_dict[results[1][1].k]) = 3

(* C2: no step of aggregate_normalize_data changes the list the caller      *)
(* passed: its records keep their keys and their values.                    *)
C2_CallerListUnchanged ==
    [][call' = AggregateNormalizeData => heap'["caller"] = heap["caller"]]_vars

\* a call has normalized its copy, which now differs from the caller's list
C2_Witness ==
    /\ call = AggregateNormalizeData /\ pc = "done" /\ baseline # None
    /\ \E n \in 1..Len(results) : \E j \in 1..Len(results[n]) :
         /\ IsListOfList(results[n][j].v)
         /\ SeriesOf(heap[results_copy][n][j].v) # SeriesOf(results[n][j].v)

(* C3: with baseline None, aggregate_normalize_data returns what            *)
(* aggregate_data returns on the same collection (same keys, same pools,    *)
(* same means and deviations), also when a metric is named None_<suffix>,  *)
(* and raises only when aggregate_data raises.                              *)
C3_NoBaselineIsPlainAggregation ==
    (call = AggregateNormalizeData /\ baseline = None) =>
        /\ pc = "done" =>
             /\ aggregate_data(results).exc = "none"
             /\ out = aggregate_data(results).out
             /\ ret_dict = aggregate_data(results).ret
        /\ pc = "raised" => aggregate_data(results).exc # "none"

\* a call with baseline None has returned on a record whose metric None_r
\* is a list of a list with a non-zero element other than one
C3_Witness ==
    /\ call = AggregateNormalizeData /\ baseline = None /\ pc = "done"
    /\ \E n \in 1..Len(results) :
         /\ HasKey(results[n], None_r) /\ HasKey(results[n], m_r)
         /\ IsListOfList(ValueOf(results[n], None_r))
         /\ SeriesOf(ValueOf(results[n], None_r)) = Ints(<<2, 0>>)
         /\ SeriesOf(ValueOf(results[n], m_r)) = Ints(<<1, 2>>)

-----------------------------------------------------------------------------
(* Vocabulary of the normalization properties *)

\* the metric name '{baseline}_S'
BaselineKey(S) == (IF baseline = None THEN <<"None">> ELSE baseline) \o <<S>>

\* data_point n of the copy has been through lines 154-178
Normalized(n) ==
    /\ call = AggregateNormalizeData
    /\ n \in 1..Len(results)
    /\ \/ pc \in {"aggregate", "done"}
       \/ pc = "normalize" /\ n < i
       \/ pc = "raised" /\ (arg # "none" \/ n < i)

\* record rec holds the baseline of suffix group S as a list of a list
HasSeriesBaseline(rec, S) ==
    HasKey(rec, BaselineKey(S)) /\ IsListOfList(ValueOf(rec, BaselineKey(S)))
BaselineSeriesOf(rec, S) == SeriesOf(ValueOf(rec, BaselineKey(S)))

\* ms[j] / bs[j] for the indices j with bs[j] # 0, in index order
Quotients(ms, bs) ==
    LET upto[n \in 0..Len(bs)] ==
            IF n = 0 THEN <<>>
            ELSE IF bs[n] = Int2Rat(0) THEN upto[n - 1]
            ELSE Append(upto[n - 1], RDiv(ms[n], bs[n]))
    IN  upto[Len(bs)]

\* a value as aggregation sees it when nothing divided it
Unnormalized(v) == IF IsListOfList(v) THEN Arr(SeriesOf(v)) ELSE v

\* value v can be divided by a baseline series bs
Divisible(v, bs) == IsSeries(v) /\ Len(SeriesOf(v)) = Len(bs)
\* value v is one line 174 fails on: a scalar, a plain list, another length
Undivisible(v, bs) ==
    \/ v.t = "num"
    \/ IsScalarList(v)
    \/ IsSeries(v) /\ Len(SeriesOf(v)) # Len(bs)

\* record n is the only record of the collection that holds metric k
OnlyRecordWith(k, n) ==
    \A o \in 1..Len(results) : HasKey(results[o], k) => o = n

\* the call on baseline [[0, 2, 4]] and metric [[10, 20, 30]] has returned
ScenarioZeroFilterDone ==
    /\ results = ScenarioZeroFilter
    /\ call = AggregateNormalizeData /\ baseline = <<"b">> /\ pc = "done"

\* the rule of C4: when the baseline of a record is a list of a list b and a
\* metric of its suffix group is a series m of the same length, the record is
\* aggregated with m[j] / b[j] for the indices j where b[j] # 0, in index
\* order, and with nothing for the other indices; these quotients are the
\* pool of the metric when no other record holds it
ZeroFilteredDivision ==
    baseline # None =>
      \A n \in 1..Len(results) : \A j \in 1..Len(results[n]) :
        LET rec == results[n]
            S   == Suffix(rec[j].k)
        IN  (/\ Normalized(n)
             /\ HasSeriesBaseline(rec, S)
             /\ Divisible(rec[j].v, BaselineSeriesOf(rec, S))) =>
              LET qs == Quotients(SeriesOf(rec[j].v), BaselineSeriesOf(rec, S))
              IN  /\ heap[results_copy][n][j].v = Arr(qs)
                  /\ (pc = "done" /\ OnlyRecordWith(rec[j].k, n)) =>
                        /\ rec[j].k \in DOMAIN ret_dict
                        /\ ret_dict[rec[j].k] = qs

(* C4 as the specification states it: the rule above, under which baseline *)
(* [0, 2, 4] and metric [10, 20, 30] give the pool [5.0, 7.5].              *)
C4_ExampleAsStated ==
    /\ ZeroFilteredDivision
    /\ ScenarioZeroFilterDone => ret_dict[m_r] = <<Rat(5, 1), Rat(15, 2)>>

(* C4, amended: the rule above, under which baseline [0, 2, 4] and metric  *)
(* [10, 20, 30] give the pool [20/2, 30/4] = [10.0, 7.5].                   *)
C4_ZeroFilteredDivision ==
    /\ ZeroFilteredDivision
    /\ ScenarioZeroFilterDone => ret_dict[m_r] = <<Rat(10, 1), Rat(15, 2)>>

\* the call on baseline [[0, 2, 4]] and metric [[10, 20, 30]] has returned
\* with a pool of two observations for the metric
C4_Witness ==
    ScenarioZeroFilterDone /\ Len(ret_dict[m_r]) = 2

(* C5 as the specification states it: no call raises, whatever the shapes  *)
(* of the values.                                                           *)
C5_NeverRaises == pc # "raised"

(* C6 as the specification states it: every metric of a returned aggregate *)
(* has at least one pooled observation.                                     *)
C6_NoEmptyPoolInAggregate ==
    pc = "done" => \A k \in DOMAIN out : ret_dict[k] # <<>>

\* floor(100 * sqrt(x)) of a rational x >= 0
CentiRoot(x) ==
    CHOOSE r \in 0..100000 :
        /\ r * r * x[2] <= 10000 * x[1]
        /\ (r + 1) * (r + 1) * x[2] > 10000 * x[1]

\* the call the scenario of C7 is about has returned
ScenarioAggregateDone ==
    /\ results = ScenarioAggregate
    /\ pc = "done"
    /\ call = AggregateData \/ (call = AggregateNormalizeData /\ baseline = None)

(* C7 as the specification states it: on the scenario collection the       *)
(* result is a: (2.0, 1.0) and a_b: (20.0, about 8.16), the pool of a_b     *)
(* being 10, 20, 30 with population variance 200/3.                         *)
C7_ScenarioAsStated ==
    ScenarioAggregateDone =>
        /\ out[a].mean = Int2Rat(2)
        /\ out[a].std.radicand = Int2Rat(1)
        /\ out[a_b].mean = Int2Rat(20)
        /\ ret_dict[a_b] = Ints(<<10, 20, 30>>)
        /\ out[a_b].std.radicand = Rat(200, 3)
        /\ CentiRoot(out[a_b].std.radicand) = 816

(* C7, amended: on the scenario collection the result is a: (2.0, 1.0) and *)
(* a_b: (20.0, 10.0), the pool of a_b being the two first elements 10 and   *)
(* 30, with population variance 100.                                        *)
C7_ScenarioFirstElements ==
    ScenarioAggregateDone =>
        /\ DOMAIN out = {a, a_b}
        /\ ret_dict[a] = Ints(<<1, 3>>)
        /\ out[a].mean = Int2Rat(2)
        /\ out[a].std.radicand = Int2Rat(1)
        /\ CentiRoot(out[a].std.radicand) = 100
        /\ ret_dict[a_b] = Ints(<<10, 30>>)
        /\ out[a_b].mean = Int2Rat(20)
        /\ out[a_b].std.radicand = Int2Rat(100)
        /\ CentiRoot(out[a_b].std.radicand) = 1000

\* aggregate_normalize_data(scenario, None) has returned
C7_Witness ==
    ScenarioAggregateDone /\ call = AggregateNormalizeData /\ a_b \in DOMAIN out

\* value v is scalar-valued: a scalar, or a list that starts with a scalar
IsScalarValued(v) == v.t = "num" \/ IsScalarList(v)
ScalarOf(v) == IF v.t = "num" THEN v.n ELSE v.s[1].n

(* C8 as the specification states it: when the baseline of a record is     *)
(* scalar-valued, c, every list metric [v, ...] of its suffix group is      *)
(* aggregated with its first element divided by c, and v / c is what the    *)
(* record adds to the pool of the metric.                                   *)
C8_ScalarBaselineDivides ==
    baseline # None =>
      \A n \in 1..Len(results) : \A j \in 1..Len(results[n]) :
        LET rec == results[n]
            bk  == BaselineKey(Suffix(rec[j].k))
        IN  (/\ Normalized(n)
             /\ pc \in {"aggregate", "done"}
             /\ HasKey(rec, bk)
             /\ rec[j].k # bk
             /\ IsScalarValued(ValueOf(rec, bk))
             /\ ScalarOf(ValueOf(rec, bk)) # Int2Rat(0)
             /\ IsScalarList(rec[j].v)) =>
              Observations(heap[results_copy][n][j].v)
                = <<RDiv(rec[j].v.s[1].n, ScalarOf(ValueOf(rec, bk)))>>

C10_BaselinePerRecord ==
    call = AggregateNormalizeData =>
      /\ \A n \in 1..Len(results) : \A j \in 1..Len(results[n]) :
           (Normalized(n) /\ ~HasKey(results[n], BaselineKey(Suffix(results[n][j].k)))) =>
              heap[results_copy][n][j].v = Unnormalized(results[n][j].v)
      /\ (pc = "raised" /\ arg = "none") =>
              \E j \in 1..Len(results[i]) : Malformed(results[i][j].v)

\* a call has returned on a record with a series baseline that divided its
\* metric, followed by a record without baseline whose metric has the
\* baseline's length
C10_Witness ==
    /\ call = AggregateNormalizeData /\ baseline = <<"b">> /\ pc = "done"
    /\ Len(results) = 2
    /\ HasSeriesBaseline(results[1], "r")
    /\ BaselineSeriesOf(results[1], "r") = Ints(<<1, 2>>)
    /\ heap[results_copy][1] # results[1]
    /\ ~HasKey(results[2], b_r)
    /\ results[2][1].v = ListOfList(Ints(<<2, 1>>))
    /\ Len(ret_dict[m_r]) >= 2

\* every baseline '{baseline}_S' a record holds as a list of a list is made
\* of ones only
AllOnesBaselines ==
    \A n \in 1..Len(results) : \A j \in 1..Len(results[n]) :
        (results[n][j].k = BaselineKey(Suffix(results[n][j].k))
         /\ IsListOfList(results[n][j].v)) =>
            \A o \in 1..Len(SeriesOf(results[n][j].v)) :
                SeriesOf(results[n][j].v)[o] = Int2Rat(1)

LastNormalized ==
    IF call # AggregateNormalizeData THEN 0
    ELSE IF pc = "normalize" THEN i - 1
    ELSE IF pc \in {"aggregate", "done"} \/ (pc = "raised" /\ arg # "none")
    THEN Len(results)
    ELSE 0

\* the suffix groups of the metrics of record rec
SuffixesOf(rec) == {Suffix(rec[j].k) : j \in 1..Len(rec)}

\* a baseline value that is not a list of a list: a scalar, a list of
\* scalars, or an array
IsPlainBaseline(v) == v.t = "num" \/ IsScalarList(v) \/ v.t = "arr"

(* C12: after a record has been through the normalization loop, a baseline *)
(* is recorded for suffix group S exactly when the record holds the metric *)
(* '{baseline}_S' as a list whose first element is a list, and what is      *)
(* recorded is the array of that inner list.  When the record holds         *)
(* '{baseline}_S' as a scalar, a list of scalars or an array, nothing is    *)
(* recorded for S, every metric of group S of the record is aggregated as   *)
(* it was, and its observations are the pool of the metric when no other    *)
(* record holds it.                                                         *)
C12_BaselineRecordedIffListOfList ==
    LET n == LastNormalized IN
    n > 0 =>
      LET rec == results[n] IN
      /\ \A S \in SuffixesOf(rec) \cup DOMAIN avg_by_type :
           /\ S \in DOMAIN avg_by_type <=> HasSeriesBaseline(rec, S)
           /\ S \in DOMAIN avg_by_type =>
                 avg_by_type[S] = Arr(BaselineSeriesOf(rec, S))
      /\ \A j \in 1..Len(rec) :
           LET bk == BaselineKey(Suffix(rec[j].k)) IN
           (HasKey(rec, bk) /\ IsPlainBaseline(ValueOf(rec, bk))) =>
              /\ Suffix(rec[j].k) \notin DOMAIN avg_by_type
              /\ heap[results_copy][n][j].v = Unnormalized(rec[j].v)
              /\ (pc = "done" /\ OnlyRecordWith(rec[j].k, n)) =>
                    pool_of(ret_dict, rec[j].k) = Observations(rec[j].v)

\* a call with baseline b has returned on a record whose metric b_r is the
\* array [2] and whose metric m_r, the list of a list [[2]], has its length
C12_Witness ==
    /\ call = AggregateNormalizeData /\ baseline = <<"b">> /\ pc = "done"
    /\ LastNormalized = Len(results)
    /\ LET rec == results[Len(results)] IN
       /\ HasKey(rec, b_r) /\ ValueOf(rec, b_r) = Arr(Ints(<<2>>))
       /\ HasKey(rec, m_r) /\ ValueOf(rec, m_r) = ListOfList(Ints(<<2>>))
       /\ OnlyRecordWith(m_r, Len(results))
    /\ avg_by_type = <<>>
    /\ ret_dict[m_r] = Ints(<<2>>)

\* one 1.0 for every element of bs that is not zero
OnesPerNonzero(bs) ==
    [o \in 1..Cardinality({j \in 1..Len(bs) : bs[j] # Int2Rat(0)}) |-> Int2Rat(1)]

\* in every record that has been through the normalization loop and holds
\* the baseline of group S as a list of a list bs: the record is aggregated
\* with one 1.0 per nonzero element of bs under the key '{baseline}_S',
\* these ones are the pool of that key when no other record holds it, and a
\* metric of group S that is a series of the length of bs is aggregated as
\* its quotients by bs itself, before or after the baseline key in the
\* record
BaselineDividedByItself ==
    \A n \in 1..Len(results) : \A S \in SuffixesOf(results[n]) :
        LET rec == results[n]
            bk  == BaselineKey(S)
        IN  (Normalized(n) /\ HasSeriesBaseline(rec, S)) =>
              LET bs == BaselineSeriesOf(rec, S) IN
              /\ ValueOf(heap[results_copy][n], bk) = Arr(OnesPerNonzero(bs))
              /\ (pc = "done" /\ OnlyRecordWith(bk, n)) =>
                    /\ bk \in DOMAIN ret_dict
                    /\ ret_dict[bk] = OnesPerNonzero(bs)
              /\ \A j \in 1..Len(rec) :
                    (rec[j].k # bk /\ Suffix(rec[j].k) = S
                     /\ Divisible(rec[j].v, bs)) =>
                       heap[results_copy][n][j].v =
                         Arr(Quotients(SeriesOf(rec[j].v), bs))

(* C13 as the specification states it: in every record where a list of a   *)
(* list is recorded as the baseline '{baseline}_S', whatever the baseline   *)
(* argument, the key '{baseline}_S' is pooled as one 1.0 per nonzero        *)
(* baseline element and the other metrics of group S are divided by the     *)
(* original baseline values, in either key order.                           *)
C13_AsStated ==
    call = AggregateNormalizeData => BaselineDividedByItself

(* C13, amended: when the baseline argument is not None, in every record   *)
(* where a list of a list is recorded as the baseline '{baseline}_S', the   *)
(* key '{baseline}_S' is pooled as one 1.0 per nonzero baseline element     *)
(* (nothing for a zero element) and the other metrics of group S are        *)
(* divided by the original baseline values, in either key order.            *)
C13_BaselineNormalizedByItself ==
    (call = AggregateNormalizeData /\ baseline # None) => BaselineDividedByItself

\* a call with baseline b has returned on a record whose first key is the
\* baseline [[2, 0]], pooled as [1.0], and whose second key is the metric
\* [[1, 2]], pooled as [1/2]
C13_Witness ==
    /\ call = AggregateNormalizeData /\ baseline = <<"b">> /\ pc = "done"
    /\ Len(results) = 1 /\ Len(results[1]) = 2
    /\ results[1][1] = Entry(b_r, ListOfList(Ints(<<2, 0>>)))
    /\ results[1][2] = Entry(m_r, ListOfList(Ints(<<1, 2>>)))
    /\ ret_dict[b_r] = <<Int2Rat(1)>>
    /\ ret_dict[m_r] = <<Rat(1, 2)>>

-----------------------------------------------------------------------------
(* Vocabulary of the plot_bar properties *)

\* the palette is the name of a colour scheme and the assertions of lines
\* 94-95 have passed
NamedSchemeAccepted ==
    /\ \/ plot_pc \in {"bars", "done"}
       \/ plot_pc = "raised" /\ plot_exc \in {"IndexError", "ValueError"}
                             /\ x_groups # <<>>
    /\ first_character(formatting.color_palette) # "#"

(* C14 as the specification states it: once the assertions of plot_bar     *)
(* have passed for a named colour scheme, every index 0..num_groups-1 is    *)
(* an index of the colour list, whatever the numbers of groups and of bars  *)
(* per group, and no colour lookup raises IndexError.                       *)
C14_ColorIndexInBounds ==
    NamedSchemeAccepted =>
        /\ \A n \in 0..(num_groups(x_groups) - 1) : n < Len(colors)
        /\ plot_exc # "IndexError"

====
